---- MODULE Spec2Model ----
(***************************************************************************)
(* The periodic distance + loudness sampler of the three sketches          *)
(*   Amain.ino                      - two sensor pairs, alternating        *)
(*   unnamed/part_000               - one sensor pair                      *)
(*   Reverberation_Time_Stamper.ino - loudness only                        *)
(* as one state machine.  pc is the position of the single thread of       *)
(* control inside loop() / measureAndReport(); every action is one         *)
(* statement group between two observations of the millisecond clock.      *)
(*                                                                         *)
(* Time is in milliseconds.  clock is the hardware counter behind          *)
(* millis(): an unsigned long, so every sum and difference is taken        *)
(* modulo the counter's range.  That range is 2^32 on the board; the model *)
(* counts modulo Modulus, a smaller range that still holds many intervals, *)
(* so that a run reaches the wrap.  The environment decides by how much    *)
(* the counter has moved at each millis() call and during each delay(5).   *)
(*                                                                         *)
(* peakTime is a float number of seconds in the sketches                   *)
(* (elapsed / 1000.0).  It is held here as the fraction <<n, d>> = n / d,  *)
(* and the 3-decimal print of it as <<units, thousandths>>: <<0, 823>> is  *)
(* the text 0.823 and <<1, 0>> the text 1.000.                             *)
(***************************************************************************)
EXTENDS Integers, Naturals, Sequences, FiniteSets, TLC

VARIABLES
    variant,          \* which sketch runs: "dual", "single" or "loudness"
    clock,            \* the millisecond counter read by millis()
    pc,               \* position of the thread of control
    lastMeasureTime,  \* global: clock reading of the last trigger
    firstSensorTurn,  \* global (dual): TRUE when pair 1 runs next
    currentTime,      \* local of loop()
    sensor,           \* parameter of measureAndReport: the Ultrasonic object
    loudnessPin,      \* parameter: the analog pin sampled
    sensorNumber,     \* parameter: the id printed first (0: none printed)
    distance,         \* local: the centimetres MeasureInCentimeters returned
    startTime,        \* local: clock reading at the window's start
    peakValue,        \* local: best level so far, -1 before any sample
    peakTime,         \* local: offset of the best level, seconds as <<n, d>>
    loudnessValue,    \* local of the while body
    elapsed,          \* local of the while body
    serial,           \* the lines written to Serial since the last trigger
    nTriggers,        \* history: cycles started since startup
    nRecords,         \* history: lines printed since startup
    samples,          \* history: <<elapsed, level>> of every sample of the window
    guardElapsed,     \* history: the elapsed time the last while test saw
    distanceReads,    \* history: <<object, value returned>> of every distance read of this cycle
    pinsRead,         \* history: the analog pins sampled in this cycle
    sinceTrigger,     \* history: milliseconds that really passed since the last trigger
    sinceStart,       \* history: milliseconds that really passed since the window's start
    env,              \* environment explored: "explore" or "paced"
    stalled,          \* environment: TRUE once the counter has stopped advancing
    afterStall        \* history: cycles started since the counter stopped

vars == <<variant, clock, pc, lastMeasureTime, firstSensorTurn, currentTime,
          sensor, loudnessPin, sensorNumber, distance, startTime, peakValue,
          peakTime, loudnessValue, elapsed, serial, nTriggers, nRecords,
          samples, guardElapsed, distanceReads, pinsRead, sinceTrigger,
          sinceStart, env, stalled, afterStall>>

(***************************************************************************)
(* Bounds of the exploration.                                              *)
(***************************************************************************)
\* cycles started in one run
MaxCycles == 3
\* samples after which the pacing delay is made to run to the window's end
MaxSamples == 3
\* loudness levels are 0..MaxLevel
MaxLevel == 1
\* range of the millisecond counter (2^32 on the board)
Modulus == 65536

(***************************************************************************)
(* Program constants.                                                      *)
(***************************************************************************)
\* while (millis() - startTime < 1000)
window == 1000
\* delay(5)
pacing == 5
\* const unsigned long interval, one per sketch
intervalDual == 3500
intervalSingle == 2000
intervalLoudness == 3000

Variants == {"dual", "single", "loudness"}

interval ==
    CASE variant = "dual" -> intervalDual
      [] variant = "single" -> intervalSingle
      [] variant = "loudness" -> intervalLoudness

\* a - b on unsigned long
Sub(a, b) == (a - b + Modulus) % Modulus

\* the counter d milliseconds later
Tick(d) == (clock + d) % Modulus

Max(a, b) == IF a >= b THEN a ELSE b

(***************************************************************************)
(* What the environment may return.                                        *)
(***************************************************************************)
\* MeasureInCentimeters(): a range, or 0 when the echo timed out
Distances == {0, 134}

\* analogRead(): a level; a silent input in the paced environment
Levels == IF env = "paced" THEN {0} ELSE 0 .. MaxLevel

\* The advances left to a counter that may have stopped.
Held(S) == IF stalled THEN {0} ELSE S

\* x milliseconds of real time, d milliseconds later (no more is counted
\* than the counter's range)
Later(x, d) == IF x + d < Modulus THEN x + d ELSE Modulus

\* Advance of the counter seen by loop()'s millis(): nothing, up to one
\* millisecond before the interval ends, exactly to its end, two whole
\* intervals past it, or a long gap that brings the counter close to its wrap.
\* In the paced environment: up to one millisecond before the interval
\* ends, then one millisecond per call.
LoopAdvance ==
    LET e == Sub(clock, lastMeasureTime)
        near == IF e < interval
                  THEN {0, interval - e - 1, interval - e, 3 * interval - e}
                  ELSE {0, 1}
        wrap == {d \in {Sub(Modulus - 500, clock)} : e + d < Modulus /\ 2 * clock < Modulus}
        paced == IF e < interval - 1 THEN {interval - e - 1} ELSE {1}
    IN  Held(IF env = "paced" THEN paced ELSE near \cup wrap)

\* Advance between loop()'s millis() and the one that sets startTime: the
\* time the distance read took.  The slow read of the single-pair sketch
\* makes the cycle longer than that sketch's interval.
StartAdvance ==
    Held(CASE env = "paced" -> {0}
           [] env # "paced" /\ variant = "dual" -> {0, 300}
           [] env # "paced" /\ variant = "single" -> {0, 1100}
           [] env # "paced" /\ variant = "loudness" -> {0, 1})

\* Advance seen by the while test since the previous reading: none, or, at
\* the window's first test, a jump as long as the window itself.
GuardAdvance ==
    Held(IF env # "paced" /\ Len(samples) = 0 THEN {0, window} ELSE {0})

\* Advance between the while test and the reading of elapsed (the counter
\* ticks during analogRead): explored at the window's first sample and at a
\* sample whose test passed in the window's last millisecond.
BodyAdvance ==
    Held(IF env # "paced" /\ (Len(samples) = 0 \/ guardElapsed = window - 1)
           THEN {0, 1} ELSE {0})

\* Length of one delay(5): at least 5 ms; exactly 5, up to one millisecond
\* before the window ends, or to its end.  After MaxSamples
\* samples the delay runs to the window's end.  In the paced environment
\* every delay lasts exactly 5 ms.  On a stopped counter the delay returns
\* without an advance, or (after MaxSamples samples) does not return.
DelayAdvance ==
    LET e == Sub(clock, startTime)
        toEnd == IF e < window THEN window - e ELSE 0
    IN  CASE stalled -> IF Len(samples) < MaxSamples THEN {0} ELSE {}
          [] ~stalled /\ env = "paced" -> {pacing}
          [] ~stalled /\ env # "paced" /\ Len(samples) < MaxSamples ->
                {pacing, Max(pacing, toEnd - 1), Max(pacing, toEnd)}
          [] ~stalled /\ env # "paced" /\ Len(samples) >= MaxSamples ->
                {Max(pacing, toEnd)}

(***************************************************************************)
(* Pure pieces of the sketches.                                            *)
(***************************************************************************)
\* Triggers one millisecond early
TriggersEarly(now, last) == Sub(now, last) >= interval - 1

\* Triggers with > for >=: the boundary reading does not trigger
TriggersStrict(now, last) == Sub(now, last) > interval

\* Triggers with the interval added to the last trigger time instead of the
\* subtraction: the sum is not reduced, so it fails across a wrap
TriggersSum(now, last) == now >= last + interval

\* Triggers with the difference tested as a signed value below zero: an
\* unsigned difference never is, so no call of loop() starts a cycle
TriggersNever(now, last) == Sub(now, last) < 0

\* Triggers without the test: every call of loop() starts a cycle
TriggersUnconditional(now, last) == TRUE

\* Triggers without the subtraction: the reading itself is compared
TriggersAbsolute(now, last) == now >= interval

\* if (currentTime - lastMeasureTime >= interval)
Triggers(now, last) == Sub(now, last) >= interval

\* lastMeasureTime = currentTime;
Stamp(now, last) == now

\* WindowStart taking the trigger's reading for the window's start
WindowStartAtTrigger(now, trigger) == trigger

\* unsigned long startTime = millis();
WindowStart(now, trigger) == now

\* The window test with <= for <: a sample is still taken at 1000 ms
InWindowInclusive(now, start) == Sub(now, start) <= window

\* while (millis() - startTime < 1000)
InWindow(now, start) == Sub(now, start) < window

\* float timeInSeconds = elapsed / 1000.0
timeInSeconds(e) == <<e, 1000>>

\* Serial.println(x, 3): the units and the three decimals of x
println3(x) == <<x[1] \div x[2], ((x[1] % x[2]) * 1000) \div x[2]>>

\* InitialPeak with the lowest level as the starting best
InitialPeakZero == <<0, <<0, 1>>>>

\* The running peak kept from a louder earlier window instead of the
\* sentinel -1
InitialPeakLoud == <<MaxLevel, <<0, 1>>>>

\* int peakValue = -1; float peakTime = 0.0;
InitialPeak == <<-1, <<0, 1>>>>

\* UpdatePeak with >= for >: an equal level later in the window takes the peak
UpdatePeakOnTie(level, t, pv, pt) ==
    IF level >= pv THEN <<level, t>> ELSE <<pv, pt>>

\* if (loudnessValue > peakValue) { peakValue = ...; peakTime = ...; }
\* the pair <<peakValue, peakTime>> after the test
UpdatePeak(level, t, pv, pt) ==
    IF level > pv THEN <<level, t>> ELSE <<pv, pt>>

\* Channel with the second call sampling the first pair's loudness pin
ChannelCrossed(turn) ==
    CASE variant = "dual" /\ turn ->
            [sensor |-> "ultrasonic1", loudnessPin |-> "A0", sensorNumber |-> 1]
      [] variant = "dual" /\ ~turn ->
            [sensor |-> "ultrasonic2", loudnessPin |-> "A0", sensorNumber |-> 2]
      [] variant = "single" ->
            [sensor |-> "ultrasonic", loudnessPin |-> "A0", sensorNumber |-> 0]
      [] variant = "loudness" ->
            [sensor |-> "none", loudnessPin |-> "A0", sensorNumber |-> 0]

\* The arguments loop() passes to measureAndReport; the globals the
\* single-channel sketches use.
Channel(turn) ==
    CASE variant = "dual" /\ turn ->
            [sensor |-> "ultrasonic1", loudnessPin |-> "A0", sensorNumber |-> 1]
      [] variant = "dual" /\ ~turn ->
            [sensor |-> "ultrasonic2", loudnessPin |-> "A1", sensorNumber |-> 2]
      [] variant = "single" ->
            [sensor |-> "ultrasonic", loudnessPin |-> "A0", sensorNumber |-> 0]
      [] variant = "loudness" ->
            [sensor |-> "none", loudnessPin |-> "A0", sensorNumber |-> 0]

\* NextTurn without the negation: the toggle is never flipped
NextTurnStuck(turn) == turn

\* firstSensorTurn = !firstSensorTurn
NextTurn(turn) == ~turn

\* Line with a timed-out distance (0) printed as -1
LineValidated(num, dist, pt) ==
    LET shown == IF dist = 0 THEN -1 ELSE dist IN
    CASE variant = "dual" -> <<num, shown, println3(pt)>>
      [] variant = "single" -> <<shown, println3(pt)>>
      [] variant = "loudness" -> <<println3(pt)>>

\* The fields of the printed line.
Line(num, dist, pt) ==
    CASE variant = "dual" -> <<num, dist, println3(pt)>>
      [] variant = "single" -> <<dist, println3(pt)>>
      [] variant = "loudness" -> <<println3(pt)>>

\* AfterTrigger with the distance read left out
AfterTriggerNoRead == "start"

\* where control goes when the trigger test succeeds
AfterTrigger == IF variant = "loudness" THEN "start" ELSE "distance"

\* The loop body without its delay(5): straight back to the window test
AfterSampleNoDelay == "while"

\* where control goes after a sample has been compared: delay(5)
AfterSample == "delay"

\* where control goes after the last print
AfterReport == IF variant = "dual" THEN "toggle" ELSE "loop"

(***************************************************************************)
(* State after setup().                                                    *)
(***************************************************************************)
Init ==
    /\ variant \in Variants
    /\ clock = 0
    /\ pc = "loop"
    /\ lastMeasureTime = 0
    /\ firstSensorTurn = TRUE
    /\ currentTime = 0
    /\ sensor = "none"
    /\ loudnessPin = "none"
    /\ sensorNumber = 0
    /\ distance = 0
    /\ startTime = 0
    /\ peakValue = 0
    /\ peakTime = <<0, 1>>
    /\ loudnessValue = 0
    /\ elapsed = 0
    /\ serial = <<>>
    /\ nTriggers = 0
    /\ nRecords = 0
    /\ samples = <<>>
    /\ guardElapsed = 0
    /\ distanceReads = <<>>
    /\ pinsRead = {}
    /\ sinceTrigger = 0
    /\ sinceStart = 0
    /\ env = "explore"
    /\ stalled = FALSE
    /\ afterStall = 0

locals == <<sensor, loudnessPin, sensorNumber, distance, startTime, peakValue,
            peakTime, loudnessValue, elapsed>>
history == <<samples, guardElapsed, distanceReads, pinsRead>>
world == <<env, stalled>>

\* the most samples the history of one window keeps
SampleCap == window \div pacing + 1

(***************************************************************************)
(* loop(): read the clock, test the interval; on a trigger record the      *)
(* trigger time and enter the measurement with the arguments of the pair   *)
(* whose turn it is.  Otherwise loop() returns and is called again.        *)
(***************************************************************************)
loop ==
    /\ pc = "loop"
    /\ \E d \in LoopAdvance :
         LET now == Tick(d) IN
         /\ clock' = now
         /\ IF Triggers(now, lastMeasureTime)
              THEN /\ nTriggers < MaxCycles
                   /\ currentTime' = now
                   /\ lastMeasureTime' = Stamp(now, lastMeasureTime)
                   /\ nTriggers' = nTriggers + 1
                   /\ sinceTrigger' = 0
                   /\ afterStall' = IF stalled THEN afterStall + 1 ELSE afterStall
                   /\ sensor' = Channel(firstSensorTurn).sensor
                   /\ loudnessPin' = Channel(firstSensorTurn).loudnessPin
                   /\ sensorNumber' = Channel(firstSensorTurn).sensorNumber
                   /\ serial' = <<>>
                   /\ samples' = <<>>
                   /\ guardElapsed' = 0
                   /\ distanceReads' = <<>>
                   /\ pinsRead' = {}
                   /\ pc' = AfterTrigger
                   /\ UNCHANGED <<distance, startTime, peakValue, peakTime,
                                  loudnessValue, elapsed>>
              ELSE /\ pc' = "loop"
                   /\ sinceTrigger' = Later(sinceTrigger, d)
                   /\ UNCHANGED <<currentTime, lastMeasureTime, nTriggers,
                                  serial, locals, history, afterStall>>
    /\ UNCHANGED <<variant, firstSensorTurn, nRecords, sinceStart, world>>

(***************************************************************************)
(* long distance = sensor.MeasureInCentimeters();                          *)
(***************************************************************************)
MeasureDistance ==
    /\ pc = "distance"
    /\ \E v \in Distances :
         /\ distance' = v
         /\ distanceReads' = Append(distanceReads, <<sensor, v>>)
    /\ pc' = "start"
    /\ UNCHANGED <<variant, clock, lastMeasureTime, firstSensorTurn, currentTime,
                   sensor, loudnessPin, sensorNumber, startTime, peakValue,
                   peakTime, loudnessValue, elapsed, serial, nTriggers, nRecords,
                   samples, guardElapsed, pinsRead, sinceTrigger, sinceStart,
                   world, afterStall>>

(***************************************************************************)
(* unsigned long startTime = millis(); int peakValue = -1;                 *)
(* float peakTime = 0.0;                                                   *)
(***************************************************************************)
OpenWindow ==
    /\ pc = "start"
    /\ \E d \in StartAdvance :
         /\ clock' = Tick(d)
         /\ startTime' = WindowStart(Tick(d), currentTime)
         /\ sinceTrigger' = Later(sinceTrigger, d)
    /\ sinceStart' = 0
    /\ peakValue' = InitialPeak[1]
    /\ peakTime' = InitialPeak[2]
    /\ pc' = "while"
    /\ UNCHANGED <<variant, lastMeasureTime, firstSensorTurn, currentTime,
                   sensor, loudnessPin, sensorNumber, distance, loudnessValue,
                   elapsed, serial, nTriggers, nRecords, history, world,
                   afterStall>>

(***************************************************************************)
(* while (millis() - startTime < 1000)                                     *)
(***************************************************************************)
WhileTest ==
    /\ pc = "while"
    /\ \E d \in GuardAdvance :
         /\ clock' = Tick(d)
         /\ guardElapsed' = Sub(Tick(d), startTime)
         /\ sinceTrigger' = Later(sinceTrigger, d)
         /\ sinceStart' = Later(sinceStart, d)
         /\ pc' = IF InWindow(Tick(d), startTime) THEN "body" ELSE "print"
    /\ UNCHANGED <<variant, lastMeasureTime, firstSensorTurn, currentTime,
                   locals, serial, nTriggers, nRecords, samples,
                   distanceReads, pinsRead, world, afterStall>>

(***************************************************************************)
(* int loudnessValue = analogRead(loudnessPin);                            *)
(* unsigned long elapsed = millis() - startTime;                           *)
(* float timeInSeconds = elapsed / 1000.0;                                 *)
(* if (loudnessValue > peakValue) { ... }                                  *)
(***************************************************************************)
Sample ==
    /\ pc = "body"
    /\ \E v \in Levels, d \in BodyAdvance :
         LET e == Sub(Tick(d), startTime)
             p == UpdatePeak(v, timeInSeconds(e), peakValue, peakTime)
         IN  /\ clock' = Tick(d)
             /\ loudnessValue' = v
             /\ elapsed' = e
             /\ peakValue' = p[1]
             /\ peakTime' = p[2]
             /\ samples' = IF Len(samples) < SampleCap
                              THEN Append(samples, <<e, v>>)
                              ELSE samples
             /\ sinceTrigger' = Later(sinceTrigger, d)
             /\ sinceStart' = Later(sinceStart, d)
    /\ pinsRead' = pinsRead \cup {loudnessPin}
    /\ pc' = AfterSample
    /\ UNCHANGED <<variant, lastMeasureTime, firstSensorTurn, currentTime,
                   sensor, loudnessPin, sensorNumber, distance, startTime,
                   serial, nTriggers, nRecords, guardElapsed,
                   distanceReads, world, afterStall>>

(***************************************************************************)
(* delay(5); and the end of the while body.                                *)
(***************************************************************************)
Delay ==
    /\ pc = "delay"
    /\ \E d \in DelayAdvance :
         /\ clock' = Tick(d)
         /\ sinceTrigger' = Later(sinceTrigger, d)
         /\ sinceStart' = Later(sinceStart, d)
    /\ loudnessValue' = 0
    /\ elapsed' = 0
    /\ pc' = "while"
    /\ UNCHANGED <<variant, lastMeasureTime, firstSensorTurn, currentTime,
                   sensor, loudnessPin, sensorNumber, distance, startTime,
                   peakValue, peakTime, serial, nTriggers, nRecords, history,
                   world, afterStall>>

(***************************************************************************)
(* Serial.print(sensorNumber); Serial.print(","); Serial.print(distance);  *)
(* Serial.print(","); Serial.println(peakTime, 3);                         *)
(* and the return: the parameters and locals of the measurement cease to   *)
(* exist (in the single-channel sketches loop() returns here as well).     *)
(***************************************************************************)
Report ==
    /\ pc = "print"
    /\ serial' = Append(serial, Line(sensorNumber, distance, peakTime))
    /\ nRecords' = nRecords + 1
    /\ pc' = AfterReport
    /\ sensor' = "none"
    /\ loudnessPin' = "none"
    /\ sensorNumber' = 0
    /\ distance' = 0
    /\ startTime' = 0
    /\ peakValue' = 0
    /\ peakTime' = <<0, 1>>
    /\ currentTime' = IF AfterReport = "loop" THEN 0 ELSE currentTime
    /\ sinceStart' = 0
    /\ UNCHANGED <<variant, clock, lastMeasureTime, firstSensorTurn,
                   loudnessValue, elapsed, nTriggers, history, sinceTrigger,
                   world, afterStall>>

(***************************************************************************)
(* firstSensorTurn = !firstSensorTurn; (dual sketch, after the call) and   *)
(* the return of loop().                                                   *)
(***************************************************************************)
Toggle ==
    /\ pc = "toggle"
    /\ firstSensorTurn' = NextTurn(firstSensorTurn)
    /\ currentTime' = 0
    /\ pc' = "loop"
    /\ UNCHANGED <<variant, clock, lastMeasureTime, locals, serial,
                   nTriggers, nRecords, history, sinceTrigger, sinceStart,
                   world, afterStall>>

Next ==
    \/ loop
    \/ MeasureDistance
    \/ OpenWindow
    \/ WhileTest
    \/ Sample
    \/ Delay
    \/ Report
    \/ Toggle

Spec == Init /\ [][Next]_vars

(***************************************************************************)
(* The counter stops: from now on every millis() returns the same value.   *)
(***************************************************************************)
Stall ==
    /\ ~stalled
    /\ stalled' = TRUE
    /\ UNCHANGED <<variant, clock, pc, lastMeasureTime, firstSensorTurn,
                   currentTime, locals, serial, nTriggers, nRecords, history,
                   sinceTrigger, sinceStart, env, afterStall>>

NextStall ==
    \/ Next
    \/ Stall

\* the sketches on a counter that may stop at any moment
SpecStall == Init /\ [][NextStall]_vars

(***************************************************************************)
(* The paced environment: a silent input, every delay(5) exactly 5 ms, no  *)
(* other advance inside the window, loop() called up to the interval's     *)
(* end.  The processor always executes its next statement.                 *)
(***************************************************************************)
InitPaced ==
    /\ variant \in Variants
    /\ clock = 0
    /\ pc = "loop"
    /\ lastMeasureTime = 0
    /\ firstSensorTurn = TRUE
    /\ currentTime = 0
    /\ sensor = "none"
    /\ loudnessPin = "none"
    /\ sensorNumber = 0
    /\ distance = 0
    /\ startTime = 0
    /\ peakValue = 0
    /\ peakTime = <<0, 1>>
    /\ loudnessValue = 0
    /\ elapsed = 0
    /\ serial = <<>>
    /\ nTriggers = 0
    /\ nRecords = 0
    /\ samples = <<>>
    /\ guardElapsed = 0
    /\ distanceReads = <<>>
    /\ pinsRead = {}
    /\ sinceTrigger = 0
    /\ sinceStart = 0
    /\ env = "paced"
    /\ stalled = FALSE
    /\ afterStall = 0

SpecPaced == InitPaced /\ [][Next]_vars

SpecPacedFair == InitPaced /\ [][Next]_vars /\ WF_vars(Next)

(***************************************************************************)
(* Properties.                                                             *)
(***************************************************************************)
\* the last field of a printed line: peak_time as <<units, thousandths>>
PeakField(line) == line[Len(line)]

\* the text of an offset of e milliseconds: e = 823 reads 0.823
Shown(e) == <<e \div 1000, e % 1000>>

\* the highest level of a non-empty window
TopLevel(s) == CHOOSE m \in {s[i][2] : i \in DOMAIN s} :
                  \A i \in DOMAIN s : s[i][2] <= m

\* the index of the first sample at the highest level
FirstTop(s) == CHOOSE i \in DOMAIN s :
                  /\ s[i][2] = TopLevel(s)
                  /\ \A j \in 1 .. (i - 1) : s[j][2] # TopLevel(s)

InMeasurement == pc \in {"distance", "start", "while", "body", "delay", "print"}

\* C1: the peak_time of every printed record is the elapsed offset of the
\* first sample of its window that has the window's highest level; a later
\* sample of equal level does not replace it.
C1_PeakIsFirstMaximum ==
    \A k \in DOMAIN serial :
        samples # <<>> =>
            PeakField(serial[k]) = Shown(samples[FirstTop(samples)][1])

\* C1 witness: a record whose window rose to its highest level at the second
\* sample and repeated that level at the third.
C1_Witness ==
    /\ serial # <<>>
    /\ Len(samples) = 3
    /\ samples[1][2] < samples[2][2]
    /\ samples[3][2] = samples[2][2]
    /\ PeakField(serial[1]) = Shown(samples[2][1])
    /\ samples[3][1] > samples[2][1]

\* C2: the peak_time of every printed record is at least 0.000 and below
\* 1.000, whatever the clock does between the while test and the reading of
\* elapsed.
C2_PeakInsideWindow ==
    \A k \in DOMAIN serial :
        PeakField(serial[k])[1] = 0 /\ PeakField(serial[k])[2] \in 0 .. 999

\* C3: in the dual sketch the k-th trigger since startup runs pair 1 when k
\* is odd and pair 2 when k is even.
C3_ChannelsAlternate ==
    variant = "dual" =>
        LET expected == IF nTriggers % 2 = 1 THEN 1 ELSE 2 IN
        /\ InMeasurement => sensorNumber = expected
        /\ \A k \in DOMAIN serial : serial[k][1] = expected

\* C3 witness: the third trigger is running pair 1 again, and has sampled.
C3_Witness ==
    /\ variant = "dual"
    /\ nTriggers = 3
    /\ pc = "delay"
    /\ sensorNumber = 1
    /\ pinsRead = {"A0"}

\* C4: a call of loop() whose clock reading is less than interval after
\* lastMeasureTime starts no cycle, prints nothing, and leaves
\* lastMeasureTime and the toggle as they were.
C4_NoTriggerNoEffect ==
    [][(pc = "loop" /\ Sub(clock', lastMeasureTime) < interval) =>
          /\ pc' = "loop"
          /\ UNCHANGED <<lastMeasureTime, firstSensorTurn, nTriggers,
                         nRecords, serial>>]_vars

\* C4 witness: loop() has been called one millisecond before the interval
\* ended, after an earlier cycle, and is still idle.
C4_Witness ==
    /\ pc = "loop"
    /\ nTriggers = 1
    /\ nRecords = 1
    /\ Sub(clock, lastMeasureTime) = interval - 1

\* C5: a call of loop() triggers exactly when its reading is at least
\* interval after lastMeasureTime; a triggering call starts one cycle and
\* sets lastMeasureTime to its own reading, however late it is.
C5_TriggerDecision ==
    [][pc = "loop" =>
          LET gap == Sub(clock', lastMeasureTime) IN
          /\ (gap >= interval) <=> (nTriggers' = nTriggers + 1)
          /\ (gap < interval) <=> (nTriggers' = nTriggers)
          /\ (nTriggers' = nTriggers + 1) =>
                /\ lastMeasureTime' = clock'
                /\ pc' \in {"distance", "start"}]_vars

\* C5 witness: the first trigger came two whole intervals late; the cycle it
\* started is the only one and the next is due one interval after it.
C5_Witness ==
    /\ nTriggers = 1
    /\ lastMeasureTime = 3 * interval
    /\ pc = "loop"
    /\ nRecords = 1
    /\ Sub(clock, lastMeasureTime) = interval - 1

\* every sample of the window had level 0
AllSilent == \A i \in DOMAIN samples : samples[i][2] = 0

DistanceField(line) == line[Len(line) - 1]

\* the state of the cycle that a position of control belongs to
Phase(p) ==
    CASE p \in {"loop", "toggle"} -> "Idle"
      [] p = "distance" -> "DistanceRead"
      [] p \in {"start", "while", "body", "delay"} -> "EnvelopeCapture"
      [] p = "print" -> "Emit"

\* C7: one record per trigger, printed after the trigger's window has ended;
\* in the dual sketch its id is the pair the toggle selected at the trigger,
\* and the distance and every loudness sample of the cycle were read from
\* that pair's sensors.
C7_OneRecordFromSelectedPair ==
    /\ InMeasurement => (nRecords = nTriggers - 1 /\ serial = <<>>)
    /\ ~InMeasurement => (nRecords = nTriggers /\ Len(serial) = IF nTriggers = 0 THEN 0 ELSE 1)
    /\ serial # <<>> => guardElapsed >= window
    /\ (variant = "dual" /\ serial # <<>>) =>
          LET id == serial[1][1]
              selected == IF pc = "toggle"
                            THEN (IF firstSensorTurn THEN 1 ELSE 2)
                            ELSE (IF firstSensorTurn THEN 2 ELSE 1)
          IN  /\ id = selected
              /\ id = 1 => (/\ Len(distanceReads) = 1
                            /\ distanceReads[1][1] = "ultrasonic1"
                            /\ pinsRead \subseteq {"A0"})
              /\ id = 2 => (/\ Len(distanceReads) = 1
                            /\ distanceReads[1][1] = "ultrasonic2"
                            /\ pinsRead \subseteq {"A1"})
              /\ DistanceField(serial[1]) = distanceReads[1][2]

\* C7 witness: the record of the second trigger carries id 2 and its three
\* samples came from pin A1.
C7_Witness ==
    /\ variant = "dual"
    /\ nTriggers = 2
    /\ nRecords = 2
    /\ serial # <<>>
    /\ serial[1][1] = 2
    /\ pinsRead = {"A1"}
    /\ Len(samples) = 3

\* C8: a cycle reads the distance once; its record is printed with the value
\* that read returned, whatever the value, after the full window; control
\* then returns to the idle loop.
C8_DistancePassedThrough ==
    variant # "loudness" =>
        /\ pc \in {"start", "while", "body", "delay", "print"} =>
              Len(distanceReads) = 1
        /\ serial # <<>> =>
              /\ Len(serial) = 1
              /\ Len(distanceReads) = 1
              /\ DistanceField(serial[1]) = distanceReads[1][2]
              /\ guardElapsed >= window
              /\ pc \in {"toggle", "loop"}

\* C8 witness: the second cycle's record carries the value 0 of a timed-out
\* echo, and control is back in the idle loop.
C8_Witness ==
    /\ variant = "single"
    /\ nRecords = 2
    /\ pc = "loop"
    /\ serial # <<>>
    /\ distanceReads = << <<"ultrasonic", 0>> >>
    /\ DistanceField(serial[1]) = 0

\* C9: a cycle goes Idle -> DistanceRead -> EnvelopeCapture -> Emit -> Idle
\* (the loudness-only sketch has no DistanceRead).  The trigger test is made
\* only when idle and only when every earlier cycle has printed; a sample is
\* taken only after the one distance read; the record is written only after
\* the while test has failed, and no sample follows it.
C9_CycleOrder ==
    [][/\ Phase(pc') # Phase(pc) =>
             \/ Phase(pc) = "Idle" /\ Phase(pc') = "DistanceRead"
             \/ Phase(pc) = "Idle" /\ Phase(pc') = "EnvelopeCapture"
                                   /\ variant = "loudness"
             \/ Phase(pc) = "DistanceRead" /\ Phase(pc') = "EnvelopeCapture"
             \/ Phase(pc) = "EnvelopeCapture" /\ Phase(pc') = "Emit"
             \/ Phase(pc) = "Emit" /\ Phase(pc') = "Idle"
       /\ (nTriggers' # nTriggers \/ lastMeasureTime' # lastMeasureTime) =>
             (pc = "loop" /\ nRecords = nTriggers)
       /\ (samples' # samples /\ samples' # <<>>) =>
             /\ pc = "body"
             /\ serial = <<>>
             /\ variant # "loudness" => Len(distanceReads) = 1
       /\ (distanceReads' # distanceReads /\ distanceReads' # <<>>) =>
             (pc = "distance" /\ samples = <<>>)
       /\ (serial' # serial /\ serial' # <<>>) =>
             /\ pc = "print"
             /\ guardElapsed >= window
             /\ Phase(pc') = "Idle"]_vars

\* C9 witness: a cycle of the dual sketch that has read the distance and
\* taken three samples is about to print.
C9_Witness ==
    /\ variant = "dual"
    /\ pc = "print"
    /\ Len(distanceReads) = 1
    /\ Len(samples) = 3
    /\ serial = <<>>

\* C10: two consecutive triggers are at least max(interval, 1000) ms apart
\* on the clock.
C10_TriggerSpacing ==
    [][(nTriggers >= 1 /\ nTriggers' = nTriggers + 1) =>
          Sub(clock', lastMeasureTime) >= Max(interval, window)]_vars

\* C10 witness: the second trigger came exactly one interval after the first.
C10_Witness ==
    /\ nTriggers = 2
    /\ lastMeasureTime = 2 * interval
    /\ currentTime = lastMeasureTime
    /\ pc \in {"distance", "start"}

\* C11: the window's start is the clock reading made after the distance read
\* has returned, and the record is printed only when the clock has reached
\* that start plus 1000 ms, however long the distance read took.
C11_FullWindowFromOwnStart ==
    [][/\ pc = "start" => startTime' = clock'
       /\ (pc = "print" \/ (serial' # serial /\ serial' # <<>>)) =>
             Sub(clock, startTime) >= window]_vars

\* C11 witness: a cycle whose distance read took 1100 ms is about to print,
\* 1000 ms after its window's start and 2100 ms after its trigger.
C11_Witness ==
    /\ variant = "single"
    /\ pc = "print"
    /\ Sub(startTime, lastMeasureTime) = 1100
    /\ Sub(clock, startTime) = window
    /\ Len(samples) = 3

\* C12 (as stated): once the counter has stopped, no cycle is started any
\* more, in whatever state the sketch was when it stopped.
C12_NoTriggerAfterStall == [][stalled => nTriggers' = nTriggers]_vars

\* C12 (amended): once the counter has stopped, a call of loop() starts a
\* cycle only if the stopped reading is already at least interval past the
\* last trigger; at most one such cycle is started, and that cycle never
\* leaves its capture loop, so it prints no record.
C12_AtMostOneHangingCycleAfterStall ==
    /\ [](/\ afterStall <= 1
          /\ afterStall = 1 =>
                pc \in {"distance", "start", "while", "body", "delay"})
    /\ [][stalled /\ nTriggers' # nTriggers =>
             /\ afterStall = 0
             /\ clock' = clock
             /\ Sub(clock, lastMeasureTime) >= interval]_vars
    /\ [][stalled /\ pc = "loop" /\ Sub(clock, lastMeasureTime) < interval =>
             pc' = "loop" /\ nTriggers' = nTriggers]_vars

C12_Witness ==
    /\ stalled
    /\ afterStall = 1
    /\ pc = "delay"
    /\ Len(samples) = MaxSamples
    /\ Sub(clock, startTime) = 0

\* C13: with every delay(5) advancing the counter, every cycle that has
\* started leaves its capture loop, prints its record and returns to the
\* idle call of loop().
C13_CaptureEnds ==
    \A k \in 1 .. MaxCycles :
        (InMeasurement /\ nTriggers = k) ~>
            (pc = "loop" /\ nRecords = k /\ serial # <<>>)

C13_Witness ==
    /\ env = "paced"
    /\ pc = "print"
    /\ nTriggers = MaxCycles
    /\ Len(samples) = window \div pacing
    /\ sinceStart = window

\* C14: no state is terminal: with the counter advancing, after every
\* trigger another trigger follows (up to MaxCycles, the cycles the model
\* counts), every triggered cycle prints its record, and in the dual sketch
\* the cycles serve channel 1 and channel 2 in turn.
C14_CyclesRepeat ==
    /\ \A k \in 0 .. MaxCycles - 1 :
          (nTriggers = k) ~>
              (nTriggers = k + 1 /\
                 (variant = "dual" => sensorNumber = 1 + (k % 2)))
    /\ <>(nRecords = MaxCycles /\ pc = "loop")

C14_Witness ==
    /\ env = "paced"
    /\ variant = "dual"
    /\ pc = "toggle"
    /\ nTriggers = MaxCycles
    /\ nRecords = MaxCycles
    /\ firstSensorTurn = (MaxCycles % 2 = 1)

\* C16: when every delay(5) advances the counter by at least 5 ms, a
\* capture window takes at most 1000 / 5 = 200 samples.
C16_AtMostTwoHundredSamples == Len(samples) <= window \div pacing

C16_Witness ==
    /\ pc = "delay"
    /\ Len(samples) = window \div pacing
    /\ samples[Len(samples)][1] = window - pacing

\* C17: every capture window takes at least one sample: when the record is
\* printed the best level is not the sentinel -1 and the printed peak_time
\* is the elapsed offset of a sample of that window, also when the counter
\* jumps between the reading of startTime and the first while test.
C17_EveryWindowSamples ==
    /\ pc = "print" => (samples # <<>> /\ peakValue # -1)
    /\ \A k \in DOMAIN serial :
          \E i \in DOMAIN samples : PeakField(serial[k]) = Shown(samples[i][1])

\* C18: the trigger test and the window test stay right when the counter
\* wraps to 0: as long as less than the counter's range of real time has
\* passed, a call of loop() starts a cycle exactly when at least interval
\* ms of real time have passed since the last trigger, and a while test
\* ends the window exactly when at least 1000 ms of real time have passed
\* since startTime was read.
C18_TestsCorrectAcrossWrap ==
    [][LET d == Sub(clock', clock) IN
       /\ (pc = "loop" /\ sinceTrigger + d < Modulus) =>
             ((nTriggers' = nTriggers + 1 /\ lastMeasureTime' = clock')
                <=> sinceTrigger + d >= interval)
       /\ (pc = "while" /\ sinceStart + d < Modulus) =>
             (pc' = "print" <=> sinceStart + d >= window)]_vars

\* C18 witness: a cycle triggered interval ms after a trigger at 500 ms
\* before the wrap (whose window therefore ran across the wrap), with a
\* reading smaller than the last trigger time.
C18_Witness ==
    /\ nTriggers = 2
    /\ pc = "while"
    /\ lastMeasureTime = (Modulus - 500 + interval) % Modulus
    /\ lastMeasureTime < interval
    /\ sinceTrigger = Sub(clock, lastMeasureTime)

\* C19: the running peak belongs to one cycle: every window starts with
\* the best level -1 and the best time 0, during the window the best level
\* is the highest level of that window's own samples, and the record shows
\* the offset of the first of them at that level (0.000 if there were none);
\* nothing of an earlier cycle enters.
C19_PeakIsPerCycle ==
    /\ [][pc = "start" => (peakValue' = -1 /\ peakTime' = <<0, 1>>)]_vars
    /\ [](pc \in {"while", "delay", "print"} =>
            /\ peakValue = IF samples = <<>> THEN -1 ELSE TopLevel(samples)
            /\ println3(peakTime) =
                  IF samples = <<>> THEN <<0, 0>>
                  ELSE Shown(samples[FirstTop(samples)][1]))
    /\ [](\A k \in DOMAIN serial :
            PeakField(serial[k]) =
                IF samples = <<>> THEN <<0, 0>>
                ELSE Shown(samples[FirstTop(samples)][1]))

\* C19 witness: the record of a later cycle whose window was silent: it
\* shows the offset of that window's first sample.
C19_Witness ==
    /\ nTriggers = MaxCycles
    /\ serial # <<>>
    /\ Len(samples) = 2
    /\ AllSilent
    /\ samples[1][1] = 1
    /\ samples[2][1] > 1
    /\ PeakField(serial[1]) = Shown(samples[1][1])

====
